---- MODULE Spec2Model ----
(***************************************************************************)
(* beluga::DifferentialDriveModel                                          *)
(* (beluga/include/beluga/motion/differential_drive_model.hpp).            *)
(*                                                                         *)
(* One odometry producer calls update_motion (and latest_motion_update),   *)
(* particle workers call apply_motion.  Each method is cut at the points   *)
(* where it touches members shared between threads.                        *)
(*                                                                         *)
(* Numbers.  The doubles of the source are modelled by exact integers:     *)
(*   - angles are counted in eighths of a turn, so pi is 4 units and a     *)
(*     Sophus::SO2d is its principal angle in (-pi, pi];                   *)
(*   - lengths are counted in units of the default distance_threshold      *)
(*     (0.01), so one metre is 100 units;                                  *)
(*   - a coordinate of a composed pose is a number i + h * (sqrt(2)/2),    *)
(*     which is closed under rotation by eighths of a turn;                *)
(*   - std::sqrt is the integer square root (exact on perfect squares),    *)
(*     NaN on a negative argument.                                         *)
(* Odometry inputs are taken where these numbers are exact: consecutive    *)
(* odometry positions differ along one axis.                               *)
(***************************************************************************)
EXTENDS Integers, Sequences, FiniteSets, TLC

\* ------------------------------------------------------------------ bounds
MaxCoord == 1        \* odometry coordinates are 0..MaxCoord, and one metre
MaxHeading == 1      \* odometry headings are 0..MaxHeading eighths of a turn
MaxUpdates == 3      \* update_motion calls per run
NumWorkers == 2      \* threads calling apply_motion
EnginePeriod == 3    \* period of the modelled random engine

\* --------------------------------------------------------------- constants
Pi == 4                          \* Sophus::Constants<double>::pi(), in eighths of a turn
DefaultDistanceThreshold == 1    \* distance_threshold = 0.01, the unit of length
Metre == 100 * DefaultDistanceThreshold

\* A double that is not a number: an integer outside the range of every value
\* the model computes.
NaN == -(Metre * Metre * Metre)
IsNaN(x) == x = NaN

\* std::optional: the empty sequence, or a sequence of one value
None == << >>
Some(v) == <<v>>
HasValue(o) == o # << >>
Value(o) == o[1]

Abs(x) == IF x < 0 THEN -x ELSE x
Min(a, b) == IF a < b THEN a ELSE b

\* ------------------------------------------------------------------- sqrt
RECURSIVE ISqrtIn(_, _, _)
ISqrtIn(n, lo, hi) ==
    IF lo = hi THEN lo
    ELSE LET mid == (lo + hi + 1) \div 2
         IN IF mid * mid <= n THEN ISqrtIn(n, mid, hi) ELSE ISqrtIn(n, lo, mid - 1)

\* std::sqrt
Sqrt(n) == IF IsNaN(n) \/ n < 0 THEN NaN ELSE ISqrtIn(n, 0, n)

\* ------------------------------------------------------------ Sophus::SO2d
\* The principal angle of an angle, in (-Pi, Pi].
Wrap(a) == LET m == a % (2 * Pi) IN IF m > Pi THEN m - 2 * Pi ELSE m

\* Sophus::SO2d{theta}
SO2(theta) == IF IsNaN(theta) THEN NaN ELSE Wrap(theta)
\* SO2d::log(): the rotation's angle
SO2Log(r) == r
\* SO2d::operator*
SO2Mul(a, b) == IF IsNaN(a) \/ IsNaN(b) THEN NaN ELSE Wrap(a + b)
\* SO2d::inverse()
SO2Inverse(a) == IF IsNaN(a) THEN NaN ELSE Wrap(-a)

\* std::atan2(y, x) of an axis-aligned vector
Atan2(y, x) ==
    CASE y = 0 /\ x >= 0 -> 0
      [] y = 0 /\ x < 0  -> Pi
      [] x = 0 /\ y > 0  -> Pi \div 2
      [] x = 0 /\ y < 0  -> -(Pi \div 2)

\* ------------------------------------------------ Eigen::Vector2d, SE2d
Num(i) == [i |-> i, h |-> 0]
NumAdd(a, b) == [i |-> a.i + b.i, h |-> a.h + b.h]
NumNeg(a) == [i |-> -a.i, h |-> -a.h]
Vec(x, y) == <<Num(x), Num(y)>>
NaNVec == Vec(NaN, NaN)
VecIsNaN(v) == IsNaN(v[1].i)
VecAdd(u, v) == IF VecIsNaN(u) \/ VecIsNaN(v) THEN NaNVec ELSE <<NumAdd(u[1], v[1]), NumAdd(u[2], v[2])>>
VecNeg(v) == IF VecIsNaN(v) THEN NaNVec ELSE <<NumNeg(v[1]), NumNeg(v[2])>>

\* Rotation of a vector by a quarter turn and by an eighth of a turn:
\* (x, y) -> (-y, x) and (x, y) -> ((x - y) * s, (x + y) * s), s = sqrt(2)/2.
Rot90(v) == <<NumNeg(v[2]), v[1]>>
Rot45(v) ==
    LET x == v[1]
        y == v[2]
    IN << [i |-> (x.h - y.h) \div 2, h |-> x.i - y.i],
          [i |-> (x.h + y.h) \div 2, h |-> x.i + y.i] >>

RECURSIVE Rot90Times(_, _)
Rot90Times(n, v) == IF n = 0 THEN v ELSE Rot90Times(n - 1, Rot90(v))

\* SO2d * Vector2d
Rotate(r, v) ==
    IF IsNaN(r) \/ VecIsNaN(v) THEN NaNVec
    ELSE LET k == r % (2 * Pi)
             q == Rot90Times(k \div 2, v)
         IN IF k % 2 = 1 THEN Rot45(q) ELSE q

\* Sophus::SE2d{so2, translation}
SE2(r, t) == [so2 |-> r, t |-> t]
\* SE2d::operator*
SE2Mul(a, b) == SE2(SO2Mul(a.so2, b.so2), VecAdd(a.t, Rotate(a.so2, b.t)))

\* The odometry pose (x, y, theta).
Pose(x, y, theta) == SE2(SO2(theta), Vec(x, y))
PoseX(p) == p.t[1].i
PoseY(p) == p.t[2].i

\* --------------------------------------------------- std::normal_distribution
\* typename std::normal_distribution<double>::param_type
DistributionParam(mean, stddev) == [mean |-> mean, stddev |-> stddev]
\* Variant of InitialParam: a parameter left at the library's default
\* (mean 0, standard deviation 1).
InitialParamLibraryDefault == DistributionParam(0, 1)

\* The member initialisers {0.0, 0.0} of the three parameters.
InitialParam == DistributionParam(0, 0)

\* The uniform random bit generator: its next state, and the standard normal
\* variate made of its output.
EngineNext(g) == (g + 1) % EnginePeriod
Variate(g) == (g % 3) - 1

\* distribution(gen, param).  A library that computes variates in pairs keeps
\* the second one in the distribution object and returns it on the next call
\* without drawing from the generator (caches = TRUE); one that draws afresh
\* on every call keeps nothing.  The result is the variate scaled by the
\* parameter given to the call.
NormalDraw(caches, saved, gen, param) ==
    LET fresh == ~(caches /\ HasValue(saved))
        x == Variate(gen)
        y == Variate(EngineNext(gen))
        z == IF fresh THEN y ELSE Value(saved)
    IN [value |-> IF IsNaN(param.stddev) THEN NaN ELSE z * param.stddev + param.mean,
        saved |-> IF fresh /\ caches THEN Some(x) ELSE None,
        gen   |-> IF fresh THEN EngineNext(EngineNext(gen)) ELSE gen]

\* ------------------------------------------------- update_motion, the maths
\* translation.norm()
Norm(dx, dy) == Sqrt(dx * dx + dy * dy)

\* Variant of AboveThreshold: distance >= params_.distance_threshold.
AtOrAboveThreshold(distance, threshold) == distance >= threshold

\* distance > params_.distance_threshold
AboveThreshold(distance, threshold) == distance > threshold

\* Variant of FirstRotation: the heading composed with the previous
\* orientation rather than with its inverse.
FirstRotationFromPrevious(dx, dy, distance, previous_orientation, threshold) ==
    IF AboveThreshold(distance, threshold)
    THEN SO2Mul(SO2(Atan2(dy, dx)), previous_orientation)
    ELSE SO2(0)

\* first_rotation
FirstRotation(dx, dy, distance, previous_orientation, threshold) ==
    IF AboveThreshold(distance, threshold)
    THEN SO2Mul(SO2(Atan2(dy, dx)), SO2Inverse(previous_orientation))
    ELSE SO2(0)

\* second_rotation
SecondRotation(current_orientation, previous_orientation, first_rotation) ==
    SO2Mul(SO2Mul(current_orientation, SO2Inverse(previous_orientation)),
           SO2Inverse(first_rotation))

\* Variant of rotation_variance: the rotation's own angle, not the smaller of
\* it and the flipped rotation's.
rotation_variance_unflipped(rotation) == SO2Log(rotation) * SO2Log(rotation)

\* rotation_variance: backward and forward motion are treated symmetrically.
rotation_variance(rotation) ==
    LET flipped_rotation == SO2Mul(rotation, SO2(Pi))
        delta == Min(Abs(SO2Log(rotation)), Abs(SO2Log(flipped_rotation)))
    IN delta * delta

\* The locals of update_motion computed before the lock is taken.
Decompose(last_pose, pose, params) ==
    LET dx == PoseX(pose) - PoseX(last_pose)
        dy == PoseY(pose) - PoseY(last_pose)
        distance == Norm(dx, dy)
        first_rotation ==
            FirstRotation(dx, dy, distance, last_pose.so2, params.distance_threshold)
        second_rotation == SecondRotation(pose.so2, last_pose.so2, first_rotation)
    IN [distance          |-> distance,
        distance_variance |-> distance * distance,
        first_rotation    |-> first_rotation,
        second_rotation   |-> second_rotation,
        combined_rotation |-> SO2Mul(first_rotation, second_rotation)]

NoLocals ==
    [distance |-> 0, distance_variance |-> 0, first_rotation |-> 0,
     second_rotation |-> 0, combined_rotation |-> 0]

\* Variant of WeightedVariance: the difference of the two terms.
WeightedVarianceDifference(a, va, b, vb) == a * va - b * vb

\* The weighted sum of two variance terms that std::sqrt receives.
WeightedVariance(a, va, b, vb) == a * va + b * vb

\* The three parameters update_motion publishes.
FirstRotationParams(loc, params) ==
    DistributionParam(
        SO2Log(loc.first_rotation),
        Sqrt(WeightedVariance(
            params.rotation_noise_from_rotation, rotation_variance(loc.first_rotation),
            params.rotation_noise_from_translation, loc.distance_variance)))

TranslationParams(loc, params) ==
    DistributionParam(
        loc.distance,
        Sqrt(WeightedVariance(
            params.translation_noise_from_translation, loc.distance_variance,
            params.translation_noise_from_rotation, rotation_variance(loc.combined_rotation))))

SecondRotationParams(loc, params) ==
    DistributionParam(
        SO2Log(loc.second_rotation),
        Sqrt(WeightedVariance(
            params.rotation_noise_from_rotation, rotation_variance(loc.second_rotation),
            params.rotation_noise_from_translation, loc.distance_variance)))

\* Variant of StoredPose: the pose is stored only while last_pose_ is empty.
StoredPoseOnce(last_pose, pose) == IF HasValue(last_pose) THEN last_pose ELSE Some(pose)

\* The value last_pose_ = pose stores.
StoredPose(last_pose, pose) == Some(pose)

\* -------------------------------------------------- apply_motion, the maths
\* state * SE2d{first_rotation, (0, 0)} * SE2d{second_rotation, translation}
ApplyResult(state, first, translation, second) ==
    LET first_rotation == SO2(first)
        second_rotation == SO2(second)
    IN SE2Mul(SE2Mul(state, SE2(first_rotation, Vec(0, 0))),
              SE2(second_rotation, Vec(translation, 0)))

\* --------------------------------------------------------- std::shared_mutex
\* Variants of SharedLockAvailable: apply_motion taking no lock at all, and
\* apply_motion taking the mutex exclusively.
SharedLockNeverWaits(mutex) == TRUE
SharedLockExclusive(mutex) == ~mutex.exclusive /\ mutex.shared = {}

\* lock_shared() returns when no thread owns the mutex exclusively;
\* lock() returns when no thread owns it at all.
SharedLockAvailable(mutex) == ~mutex.exclusive
ExclusiveLockAvailable(mutex) == ~mutex.exclusive /\ mutex.shared = {}

\* ------------------------------------------------------------------ state
VARIABLES
    params_,                  \* DifferentialDriveModelParam given to the constructor
    last_pose_,               \* std::optional<update_type>
    first_rotation_params_,
    translation_params_,
    second_rotation_params_,
    params_mutex_,            \* [exclusive: the writer owns it, shared: the readers owning it]
    distribution_caches,      \* whether the library's normal_distribution keeps a variate
    upc,                      \* the producer's place in update_motion
    u_pose,                   \* update_motion's argument (of the latest call)
    u_loc,                    \* update_motion's locals
    nupdates,                 \* number of update_motion calls begun
    version,                  \* per parameter, the update_motion call that wrote it (0: none)
    latest,                   \* what latest_motion_update() returned since the last update
    apc,                      \* per worker, its place in apply_motion
    frame,                    \* per worker, apply_motion's arguments and locals
    distribution              \* per worker, the thread_local distribution's kept variate

shared == <<last_pose_, first_rotation_params_, translation_params_, second_rotation_params_>>
producer == <<upc, u_pose, u_loc, nupdates, version, latest>>
workers == <<apc, frame, distribution>>
vars == <<params_, distribution_caches, shared, params_mutex_, producer, workers>>

Workers == 1..NumWorkers

NoFrame == [state |-> Pose(0, 0, 0), seed |-> 0, gen |-> 0, first |-> 0, translation |-> 0,
            second |-> 0, reads |-> << >>]

\* ------------------------------------------------------------- construction
Param(rr, rt, tt, tr, threshold) ==
    [rotation_noise_from_rotation       |-> rr,
     rotation_noise_from_translation    |-> rt,
     translation_noise_from_translation |-> tt,
     translation_noise_from_rotation    |-> tr,
     distance_threshold                 |-> threshold]

\* The state after DifferentialDriveModel(params).
Constructed(params, caches) ==
    /\ params_ = params
    /\ last_pose_ = None
    /\ first_rotation_params_ = InitialParam
    /\ second_rotation_params_ = InitialParam
    /\ translation_params_ = InitialParam
    /\ params_mutex_ = [exclusive |-> FALSE, shared |-> {}]
    /\ distribution_caches = caches
    /\ upc = "idle"
    /\ u_pose = Pose(0, 0, 0)
    /\ u_loc = NoLocals
    /\ nupdates = 0
    /\ version = [first_rotation |-> 0, translation |-> 0, second_rotation |-> 0]
    /\ latest = << >>
    /\ apc = [w \in Workers |-> "idle"]
    /\ frame = [w \in Workers |-> NoFrame]
    /\ distribution = [w \in Workers |-> None]

\* ------------------------------------------------------------ update_motion
\* if (last_pose_) { ... the decomposition ... }
UpdateBegin(pose) ==
    /\ upc = "idle"
    /\ nupdates < MaxUpdates
    /\ nupdates' = nupdates + 1
    /\ u_pose' = pose
    /\ latest' = << >>
    /\ IF HasValue(last_pose_)
       THEN /\ u_loc' = Decompose(Value(last_pose_), pose, params_)
            /\ upc' = "lock"
       ELSE /\ u_loc' = NoLocals
            /\ upc' = "store"
    /\ UNCHANGED <<params_, distribution_caches, shared, params_mutex_, version, workers>>

\* std::lock_guard<std::shared_mutex>{params_mutex_}
UpdateLock ==
    /\ upc = "lock"
    /\ ExclusiveLockAvailable(params_mutex_)
    /\ params_mutex_' = [params_mutex_ EXCEPT !.exclusive = TRUE]
    /\ upc' = "first_rotation"
    /\ UNCHANGED <<params_, distribution_caches, shared, u_pose, u_loc, nupdates, version,
                   latest, workers>>

UpdateWriteFirstRotation ==
    /\ upc = "first_rotation"
    /\ first_rotation_params_' = FirstRotationParams(u_loc, params_)
    /\ version' = [version EXCEPT !.first_rotation = nupdates]
    /\ upc' = "translation"
    /\ UNCHANGED <<params_, distribution_caches, last_pose_, translation_params_,
                   second_rotation_params_, params_mutex_, u_pose, u_loc, nupdates, latest,
                   workers>>

UpdateWriteTranslation ==
    /\ upc = "translation"
    /\ translation_params_' = TranslationParams(u_loc, params_)
    /\ version' = [version EXCEPT !.translation = nupdates]
    /\ upc' = "second_rotation"
    /\ UNCHANGED <<params_, distribution_caches, last_pose_, first_rotation_params_,
                   second_rotation_params_, params_mutex_, u_pose, u_loc, nupdates, latest,
                   workers>>

UpdateWriteSecondRotation ==
    /\ upc = "second_rotation"
    /\ second_rotation_params_' = SecondRotationParams(u_loc, params_)
    /\ version' = [version EXCEPT !.second_rotation = nupdates]
    /\ upc' = "unlock"
    /\ UNCHANGED <<params_, distribution_caches, last_pose_, first_rotation_params_,
                   translation_params_, params_mutex_, u_pose, u_loc, nupdates, latest,
                   workers>>

\* The end of the lock_guard's block.
UpdateUnlock ==
    /\ upc = "unlock"
    /\ params_mutex_' = [params_mutex_ EXCEPT !.exclusive = FALSE]
    /\ upc' = "store"
    /\ UNCHANGED <<params_, distribution_caches, shared, u_pose, u_loc, nupdates, version,
                   latest, workers>>

\* last_pose_ = pose
UpdateStore ==
    /\ upc = "store"
    /\ last_pose_' = StoredPose(last_pose_, u_pose)
    /\ u_loc' = NoLocals
    /\ upc' = "idle"
    /\ UNCHANGED <<params_, distribution_caches, first_rotation_params_, translation_params_,
                   second_rotation_params_, params_mutex_, u_pose, nupdates, version, latest,
                   workers>>

\* ------------------------------------------------------ latest_motion_update
\* Called from the producer's context, between its update_motion calls.
LatestMotionUpdate ==
    /\ upc = "idle"
    /\ latest' = Some(last_pose_)
    /\ UNCHANGED <<params_, distribution_caches, shared, params_mutex_, upc, u_pose, u_loc,
                   nupdates, version, workers>>

\* ------------------------------------------------------------- apply_motion
ApplyBegin(w, state, seed) ==
    /\ apc[w] = "idle"
    /\ frame' = [frame EXCEPT ![w] = [NoFrame EXCEPT !.state = state, !.seed = seed,
                                                      !.gen = seed]]
    /\ apc' = [apc EXCEPT ![w] = "lock"]
    /\ UNCHANGED <<params_, distribution_caches, shared, params_mutex_, producer,
                   distribution>>

\* std::shared_lock<std::shared_mutex>{params_mutex_}
ApplyLockShared(w) ==
    /\ apc[w] = "lock"
    /\ SharedLockAvailable(params_mutex_)
    /\ params_mutex_' = [params_mutex_ EXCEPT !.shared = @ \cup {w}]
    /\ apc' = [apc EXCEPT ![w] = "first_rotation"]
    /\ UNCHANGED <<params_, distribution_caches, shared, producer, frame, distribution>>

\* Variant of ApplyDrawFirstRotation: the motion is consumed, the parameter
\* being reset once it has been drawn from.
ApplyDrawFirstRotationConsuming(w) ==
    LET d == NormalDraw(distribution_caches, distribution[w], frame[w].gen,
                        first_rotation_params_)
    IN /\ apc[w] = "first_rotation"
       /\ frame' = [frame EXCEPT ![w].first = d.value, ![w].gen = d.gen,
                       ![w].reads = Append(@, [param   |-> first_rotation_params_,
                                               version |-> version.first_rotation])]
       /\ distribution' = [distribution EXCEPT ![w] = d.saved]
       /\ apc' = [apc EXCEPT ![w] = "translation"]
       /\ first_rotation_params_' = InitialParam
       /\ UNCHANGED <<params_, distribution_caches, last_pose_, translation_params_,
                      second_rotation_params_, params_mutex_, producer>>

\* distribution(gen, first_rotation_params_)
ApplyDrawFirstRotation(w) ==
    LET d == NormalDraw(distribution_caches, distribution[w], frame[w].gen,
                        first_rotation_params_)
    IN /\ apc[w] = "first_rotation"
       /\ frame' = [frame EXCEPT ![w].first = d.value, ![w].gen = d.gen,
                       ![w].reads = Append(@, [param   |-> first_rotation_params_,
                                               version |-> version.first_rotation])]
       /\ distribution' = [distribution EXCEPT ![w] = d.saved]
       /\ apc' = [apc EXCEPT ![w] = "translation"]
       /\ UNCHANGED <<params_, distribution_caches, shared, params_mutex_, producer>>

\* distribution(gen, translation_params_)
ApplyDrawTranslation(w) ==
    LET d == NormalDraw(distribution_caches, distribution[w], frame[w].gen,
                        translation_params_)
    IN /\ apc[w] = "translation"
       /\ frame' = [frame EXCEPT ![w].translation = d.value, ![w].gen = d.gen,
                       ![w].reads = Append(@, [param   |-> translation_params_,
                                               version |-> version.translation])]
       /\ distribution' = [distribution EXCEPT ![w] = d.saved]
       /\ apc' = [apc EXCEPT ![w] = "second_rotation"]
       /\ UNCHANGED <<params_, distribution_caches, shared, params_mutex_, producer>>

\* distribution(gen, second_rotation_params_)
ApplyDrawSecondRotation(w) ==
    LET d == NormalDraw(distribution_caches, distribution[w], frame[w].gen,
                        second_rotation_params_)
    IN /\ apc[w] = "second_rotation"
       /\ frame' = [frame EXCEPT ![w].second = d.value, ![w].gen = d.gen,
                       ![w].reads = Append(@, [param   |-> second_rotation_params_,
                                               version |-> version.second_rotation])]
       /\ distribution' = [distribution EXCEPT ![w] = d.saved]
       /\ apc' = [apc EXCEPT ![w] = "return"]
       /\ UNCHANGED <<params_, distribution_caches, shared, params_mutex_, producer>>

\* The value apply_motion is about to return.
ReturnValue(w) ==
    ApplyResult(frame[w].state, frame[w].first, frame[w].translation, frame[w].second)

\* return state * ...; and the end of the shared_lock's scope.
ApplyReturn(w) ==
    /\ apc[w] = "return"
    /\ frame' = [frame EXCEPT ![w] = NoFrame]
    /\ params_mutex_' = [params_mutex_ EXCEPT !.shared = @ \ {w}]
    /\ apc' = [apc EXCEPT ![w] = "idle"]
    /\ UNCHANGED <<params_, distribution_caches, shared, producer, distribution>>

\* ----------------------------------------------------------- specification
Coords == (0..MaxCoord) \cup {Metre}
Headings == 0..MaxHeading
OdometryPoses == {Pose(x, y, theta) : x \in Coords, y \in Coords, theta \in Headings}

\* The poses among poses that may follow last_pose: those whose position
\* differs from it along one axis at most.
Following(last_pose, poses) ==
    IF HasValue(last_pose)
    THEN {p \in poses : PoseX(p) = PoseX(Value(last_pose))
                        \/ PoseY(p) = PoseY(Value(last_pose))}
    ELSE poses

\* The steps of the program whose update_motion inputs come from poses, whose
\* apply_motion inputs come from particles and seeds, with the threads ws
\* calling apply_motion.
Step(poses, particles, seeds, ws) ==
    \/ \E pose \in Following(last_pose_, poses) : UpdateBegin(pose)
    \/ UpdateLock
    \/ UpdateWriteFirstRotation
    \/ UpdateWriteTranslation
    \/ UpdateWriteSecondRotation
    \/ UpdateUnlock
    \/ UpdateStore
    \/ LatestMotionUpdate
    \/ \E w \in ws :
        \/ \E state \in particles, seed \in seeds : ApplyBegin(w, state, seed)
        \/ ApplyLockShared(w)
        \/ ApplyDrawFirstRotation(w)
        \/ ApplyDrawTranslation(w)
        \/ ApplyDrawSecondRotation(w)
        \/ ApplyReturn(w)

\* Spec: one producer and NumWorkers workers, on the poses of the
\* rotate-in-place scenario, with and without noise, on either library.
ScenarioPoses == {Pose(0, 0, 0), Pose(Metre, 0, 0), Pose(Metre, 0, Pi \div 2)}
ParticlePoses == {Pose(1, 0, 1)}
Seeds == {0}

Init ==
    \E c \in {0, 1}, caches \in BOOLEAN :
        Constructed(Param(c, c, c, c, DefaultDistanceThreshold), caches)
Next == Step(ScenarioPoses, ParticlePoses, Seeds, Workers)
Spec == Init /\ [][Next]_vars

\* SpecSeq: one producer and one worker, on every odometry pose and the
\* scenario's, with
\* rotation coefficients of either sign, on the library that keeps no variate.
Coeffs == {-1, 0, 1}
InitSeq ==
    \E a \in Coeffs :
        Constructed(Param(a, 1, 1, a, DefaultDistanceThreshold), FALSE)
NextSeq == Step(OdometryPoses \cup ScenarioPoses, ParticlePoses, Seeds, {1})
SpecSeq == InitSeq /\ [][NextSeq]_vars

\* ================================================================== claims
Reading == {"first_rotation", "translation", "second_rotation", "return"}
Writing == {"first_rotation", "translation", "second_rotation", "unlock"}

\* update_motion has published the decomposition of last_pose_ -> u_pose and
\* has not yet overwritten last_pose_.
Published == upc = "store" /\ HasValue(last_pose_)

\* The distance between the positions of two poses that differ along one axis.
AxisDistance(p, q) == Abs(PoseX(q) - PoseX(p)) + Abs(PoseY(q) - PoseY(p))

\* SE2d::inverse()
SE2Inverse(a) == SE2(SO2Inverse(a.so2), VecNeg(Rotate(SO2Inverse(a.so2), a.t)))

\* The odometry delta last^-1 * new.
OdometryDelta(last, new) == SE2Mul(SE2Inverse(last), new)

\* The published means recomposed with zero noise:
\* Rotate(first) * Translate(distance, 0) * Rotate(second).
Recomposed ==
    ApplyResult(Pose(0, 0, 0), first_rotation_params_.mean, translation_params_.mean,
                second_rotation_params_.mean)

\* C1: the three parameters one apply_motion call reads were all written by
\* the same update_motion call (or none was written yet): no call reads a
\* parameter of update k together with a parameter of another update.
C1_ConsistentSnapshot ==
    \A w \in Workers :
        \A i, j \in 1..Len(frame[w].reads) :
            frame[w].reads[i].version = frame[w].reads[j].version

\* An apply_motion call has read all three parameters of the second update
\* while the third update_motion call waits for the lock.
C1_Witness ==
    \E w \in Workers :
        /\ apc[w] = "return"
        /\ \A i \in 1..3 : frame[w].reads[i].version = 2
        /\ nupdates = 3
        /\ upc = "lock"

\* C2: until the second update_motion call begins, all three parameters are
\* (mean 0, standard deviation 0) and were never written; the first call only
\* stores its pose as the last pose.
C2_FirstUpdateKeepsInitialParams ==
    nupdates <= 1 =>
        /\ first_rotation_params_ = DistributionParam(0, 0)
        /\ translation_params_ = DistributionParam(0, 0)
        /\ second_rotation_params_ = DistributionParam(0, 0)
        /\ version = [first_rotation |-> 0, translation |-> 0, second_rotation |-> 0]
        /\ nupdates = 1 => upc \in {"store", "idle"}
        /\ nupdates = 1 /\ upc = "idle" => last_pose_ = Some(u_pose)
        /\ nupdates = 0 \/ upc = "store" => last_pose_ = None

\* The first update_motion call, on a pose off the origin, has returned.
C2_Witness ==
    /\ nupdates = 1
    /\ upc = "idle"
    /\ u_pose = Pose(Metre, 1, 1)
    /\ last_pose_ = Some(u_pose)

\* C3: latest_motion_update() returns the empty optional exactly when
\* update_motion was never called, and otherwise the pose given to the most
\* recent update_motion call.
C3_LatestMotionUpdate ==
    HasValue(latest) =>
        /\ Value(latest) = (IF nupdates = 0 THEN None ELSE Some(u_pose))
        /\ Value(latest) = None <=> nupdates = 0

\* latest_motion_update() was called after the third update_motion call, which
\* took the decomposition branch, while a worker was inside apply_motion.
C3_Witness ==
    /\ HasValue(latest)
    /\ nupdates = 3
    /\ u_pose = Pose(Metre, 0, Pi \div 2)
    /\ \E w \in Workers : apc[w] \in Reading

\* C4 as claimed: after every update_motion that decomposes a motion, the
\* published means recomposed with zero noise equal the odometry delta.
C4_RoundTripEveryMotion ==
    Published => Recomposed = OdometryDelta(Value(last_pose_), u_pose)

\* C4 as amended: the recomposed rotation always equals the delta's rotation,
\* and the whole recomposed transform equals the delta when the distance is
\* above distance_threshold or zero.
C4_RoundTrip ==
    Published =>
        LET delta == OdometryDelta(Value(last_pose_), u_pose)
            distance == AxisDistance(Value(last_pose_), u_pose)
        IN /\ Recomposed.so2 = delta.so2
           /\ distance > params_.distance_threshold \/ distance = 0 => Recomposed = delta

\* A motion above the threshold, from a heading other than zero, with a first
\* and a second rotation, has been published.
C4_Witness ==
    /\ Published
    /\ AxisDistance(Value(last_pose_), u_pose) > params_.distance_threshold
    /\ Value(last_pose_).so2 # 0
    /\ first_rotation_params_.mean # 0
    /\ second_rotation_params_.mean # 0

\* C5: an update whose distance is not above distance_threshold publishes
\* first_rotation mean 0, second_rotation mean the change of orientation and
\* translation mean the distance; the update (1 m, 0, 0) -> (1 m, 0, pi/2)
\* with threshold 0.01 publishes the means 0, pi/2 and 0.
C5_RotationInPlace ==
    /\ Published /\ AxisDistance(Value(last_pose_), u_pose) <= params_.distance_threshold =>
           /\ first_rotation_params_.mean = 0
           /\ second_rotation_params_.mean = Wrap(u_pose.so2 - Value(last_pose_).so2)
           /\ translation_params_.mean = AxisDistance(Value(last_pose_), u_pose)
    /\ /\ Published
       /\ params_.distance_threshold = DefaultDistanceThreshold
       /\ last_pose_ = Some(Pose(Metre, 0, 0))
       /\ u_pose = Pose(Metre, 0, Pi \div 2)
       => /\ first_rotation_params_.mean = 0
          /\ second_rotation_params_.mean = Pi \div 2
          /\ translation_params_.mean = 0

\* The third update of (0, 0, 0) -> (1 m, 0, 0) -> (1 m, 0, pi/2) has been
\* published.
C5_Witness ==
    /\ Published
    /\ nupdates = 3
    /\ params_.distance_threshold = DefaultDistanceThreshold
    /\ last_pose_ = Some(Pose(Metre, 0, 0))
    /\ u_pose = Pose(Metre, 0, Pi \div 2)

\* C6: two apply_motion calls given the same particle pose, the same
\* parameters and generators in the same state return the same pose, whatever
\* calls their threads made before.
C6_Determinism ==
    \A v, w \in Workers :
        /\ apc[v] = "return"
        /\ apc[w] = "return"
        /\ frame[v].state = frame[w].state
        /\ frame[v].seed = frame[w].seed
        /\ frame[v].reads = frame[w].reads
        => ReturnValue(v) = ReturnValue(w)

C8_ApplyMotionKeepsModelState == [][apc' # apc => UNCHANGED shared]_vars

\* An apply_motion call is about to return, having drawn from parameters that
\* an update_motion call wrote.
C8_Witness ==
    \E w \in Workers :
        /\ apc[w] = "return"
        /\ HasValue(last_pose_)
        /\ first_rotation_params_ # DistributionParam(0, 0)

NoNaNStddev ==
    /\ ~IsNaN(first_rotation_params_.stddev)
    /\ ~IsNaN(translation_params_.stddev)
    /\ ~IsNaN(second_rotation_params_.stddev)

CoefficientsNonNegative ==
    /\ params_.rotation_noise_from_rotation >= 0
    /\ params_.rotation_noise_from_translation >= 0
    /\ params_.translation_noise_from_translation >= 0
    /\ params_.translation_noise_from_rotation >= 0

\* C9 as claimed: construction having rejected every negative coefficient, no
\* constructed model publishes the square root of a negative variance sum.
C9_NegativeCoefficientsRejected == NoNaNStddev

\* C9 as amended: a model constructed with four non-negative coefficients
\* never publishes the square root of a negative variance sum.
C9_NonNegativeCoefficientsAreSafe == CoefficientsNonNegative => NoNaNStddev

\* A model with non-negative coefficients has published parameters with noise.
C9_Witness ==
    /\ CoefficientsNonNegative
    /\ Published
    /\ first_rotation_params_.stddev > 0
    /\ translation_params_.stddev > 0

\* C10: rotation_variance(theta) = rotation_variance(theta + pi) and its value
\* is the square of the smaller of |theta| and |theta + pi|, both wrapped, for
\* every rotation update_motion passes to it and for every angle of the
\* model; rotation_variance(0) = 0.
C10_RotationVarianceSymmetric ==
    LET Holds(theta) ==
            /\ rotation_variance(SO2(theta)) = rotation_variance(SO2(theta + Pi))
            /\ rotation_variance(SO2(theta))
                   = Min(Abs(Wrap(theta)), Abs(Wrap(theta + Pi)))
                     * Min(Abs(Wrap(theta)), Abs(Wrap(theta + Pi)))
    IN /\ rotation_variance(SO2(0)) = 0
       /\ \A theta \in (-Pi)..Pi : Holds(theta)
       /\ upc \in Writing =>
              /\ Holds(SO2Log(u_loc.first_rotation))
              /\ Holds(SO2Log(u_loc.second_rotation))
              /\ Holds(SO2Log(u_loc.combined_rotation))

\* update_motion is about to publish a first rotation of three eighths of a
\* turn, whose flipped rotation is the smaller one.
C10_Witness ==
    /\ upc = "first_rotation"
    /\ Abs(SO2Log(u_loc.first_rotation)) = 3
    /\ rotation_variance(u_loc.first_rotation) = 1

====
